---- MODULE Spec2Model ----
(***************************************************************************)
(* Clipboard Pro: the clipboard monitor, the history store (all_items),    *)
(* the displayed list (the QListWidget `clipboard`) and the selection      *)
(* bridge of src/ClipboardPro.py, class Clipboard.                         *)
(*                                                                         *)
(* Texts are sequences of one-character strings.  An image is a record of  *)
(* its width, height, pixel format and pixel bytes.  The history entries   *)
(* carry a field `order` that stands for the identity of the Python object *)
(* (the creation index); the code never reads it.                          *)
(***************************************************************************)
EXTENDS Integers, Sequences, FiniteSets, TLC

\* ------------------------------------------------------------------ bounds
\* number of entries the monitor may create in one run
MaxInserts == 2
\* number of suppression timers that may be pending at once
MaxTimers == 2

\* ------------------------------------------------------------ input values
Empty == << >>
Space == << " " >>
TextA == << "a" >>
TextB == << "b" >>
Texts == {Empty, Space, TextA, TextB}

\* QImage(): width 0, height 0, Format_Invalid
NullImage == [w |-> 0, h |-> 0, fmt |-> 0, px |-> 0]
Img1 == [w |-> 1, h |-> 1, fmt |-> 4, px |-> 1]
Img2 == [w |-> 1, h |-> 1, fmt |-> 4, px |-> 2]
Img3 == [w |-> 2, h |-> 1, fmt |-> 4, px |-> 1]
Images == {Img1, Img2, Img3}

\* what the system clipboard may hold: text only, image only, both, or an
\* image format whose image cannot be decoded
ClipPayloads ==
    {[text |-> t, hasImage |-> FALSE, img |-> NullImage] : t \in Texts}
    \cup {[text |-> Empty, hasImage |-> TRUE, img |-> i] : i \in Images}
    \cup {[text |-> TextA, hasImage |-> TRUE, img |-> Img1],
          [text |-> TextA, hasImage |-> TRUE, img |-> NullImage]}

\* the payloads of the runs that are about the order of the store
StorePayloads ==
    {[text |-> TextA, hasImage |-> FALSE, img |-> NullImage],
     [text |-> TextB, hasImage |-> FALSE, img |-> NullImage],
     [text |-> Empty, hasImage |-> TRUE, img |-> Img1]}

\* the payloads of the runs in which saving and removing files may fail
FilePayloads ==
    {[text |-> TextA, hasImage |-> FALSE, img |-> NullImage],
     [text |-> Empty, hasImage |-> TRUE, img |-> Img1],
     [text |-> Empty, hasImage |-> TRUE, img |-> Img3]}

\* a text with an upper-case letter
TextAb == << "A", "b" >>

\* the payloads of the runs in which the user searches
SearchPayloads ==
    {[text |-> TextA, hasImage |-> FALSE, img |-> NullImage],
     [text |-> TextB, hasImage |-> FALSE, img |-> NullImage],
     [text |-> TextAb, hasImage |-> FALSE, img |-> NullImage],
     [text |-> Empty, hasImage |-> TRUE, img |-> Img1]}

\* a query in upper case
QueryB == << "B" >>

\* a query that occurs in the name of the images directory and in no file name
QueryDir == << "d" >>

\* the texts typed into the search bar
Queries == {Empty, TextA, QueryB, QueryDir}

\* the texts the user may leave in the edit dialog
EditTexts == {Empty, TextA, TextB}

\* the same and a text of spaces
EditTextsBlank == EditTexts \cup {Space}

\* Python None, as a value no text and no hash equals
None == << "None" >>

\* no QInputDialog is open
NoDialog == [text2edit |-> None, order |-> 0]

VARIABLES
    all_items,           \* self.all_items, newest first
    display,             \* the rows of the QListWidget self.clipboard
    selected,            \* selected row of the QListWidget, 0 = none
    searchText,          \* self.searchBar.text()
    lastClip,            \* self.lastClip
    lastImageHash,       \* self.lastImageHash
    lastMimeDataHash,    \* self.lastMimeDataHash
    selecting_from_app,  \* self.selecting_from_app
    timers,              \* pending QTimer.singleShot resets
    dialog,              \* the open QInputDialog of editItem, or NoDialog
    cb,                  \* the system clipboard
    files,               \* image files on disk: path -> stored image
    nextOrder,           \* creation index of the next entry
    alive,               \* the process runs (app.exec() has not been left)
    track,               \* which history variable this run records
    lastOp,              \* history "op": the handler that ran last
    run,                 \* history "run": the monitor and the current clipboard content
    lastIns              \* history "ins": the entry inserted last

vars == << all_items, display, selected, searchText, lastClip, lastImageHash,
           lastMimeDataHash, selecting_from_app, timers, dialog, cb, files,
           nextOrder, alive, track, lastOp, run, lastIns >>

\* ----------------------------------------------------------------- helpers
Digit(n) == CASE n = 0 -> "0" [] n = 1 -> "1" [] n = 2 -> "2" [] n = 3 -> "3"
              [] n = 4 -> "4" [] n = 5 -> "5" [] n = 6 -> "6" [] n = 7 -> "7"
              [] n = 8 -> "8" [] OTHER -> "9"

\* str.strip() leaves nothing
Blank(t) == \A i \in 1..Len(t) : t[i] = " "

\* str.lower() on one character
LowerChar(c) == IF c = "A" THEN "a" ELSE IF c = "B" THEN "b" ELSE c

\* mutant of Lower: the case is kept
Lower_Identity(t) == t

Lower(t) == [i \in 1..Len(t) |-> LowerChar(t[i])]

\* Python `q in s` on strings
Contains(q, s) ==
    \E k \in 0..(Len(s) - Len(q)) : \A i \in 1..Len(q) : s[k + i] = q[i]

isNull(image) == image.w = 0 /\ image.h = 0

\* f"{image.width()}_{image.height()}_{image.format()}"
imageHash(image) ==
    << Digit(image.w), "_", Digit(image.h), "_", Digit(image.fmt) >>

\* os.path.join(self.images_dir, image_filename)
ImagesDir == << "d", "/" >>

\* f"clipboard_image_{timestamp}_{unique_id}.png": a fresh name per save
ImageFilename(n) == << "i", Digit(n) >>

ImagePath(n) == ImagesDir \o ImageFilename(n)

\* ImageListWidgetItem(text, image_path, is_image)
ImageListWidgetItem(text, image_path, is_image, order) ==
    [text_content |-> text, image_path |-> image_path, is_image |-> is_image,
     order |-> order]

get_content(item) ==
    IF item.is_image THEN item.image_path ELSE item.text_content

getMimeDataHash(clip) ==
    IF clip.hasImage
    THEN IF ~isNull(clip.img) THEN imageHash(clip.img) ELSE Empty
    ELSE clip.text

\* ------------------------------------------------------------ the display
RECURSIVE SelectSeqItems(_, _)
SelectSeqItems(items, q) ==
    IF items = << >> THEN << >>
    ELSE LET item == Head(items)
             searchable_text ==
                 IF item.is_image
                 THEN (IF item.image_path # None THEN Lower(item.image_path) ELSE Empty)
                 ELSE Lower(get_content(item))
             rest == SelectSeqItems(Tail(items), q)
         IN  IF Contains(q, searchable_text) THEN << item >> \o rest ELSE rest

showAllItems(items) == items

filterItems(items, text) ==
    LET search_text == Lower(text)
    IN  IF search_text = Empty THEN showAllItems(items)
        ELSE SelectSeqItems(items, search_text)

\* mutant of updateDisplay: the text of the search bar is not looked at
updateDisplay_ShowAll(items, text) == showAllItems(items)

updateDisplay(items, text) ==
    IF Lower(text) = Empty THEN showAllItems(items) ELSE filterItems(items, text)

\* ------------------------------------------------------- history variables
\* the number of entries this run may create: one more where the claims are
\* about the order of three entries
Cap == IF track \in {"order", "kinds"} THEN MaxInserts + 1 ELSE MaxInserts

\* the runs that record history "op"
TracksOp == track \in {"op", "file", "exit", "clear", "edit"}

Min(a, b) == IF a < b THEN a ELSE b

\* history "run" starts again when the clipboard content changes; kind says how
\* the content came: "fresh" a text other than lastClip copied by another
\* program, "twin" an image that differs only in its pixels from the image just
\* recorded, "wb" written by selectItem, "plain" anything else
\* history "paths" is history "run" and, in `paths`, which of the two detection
\* paths have handled the content while the monitor was idle
NewRun(kind) ==
    [presented |-> 0, ignored |-> FALSE, inserted |-> 0, kind |-> kind,
     paths |-> "none"]

\* the runs that record history "run"
TracksRun == track \in {"run", "paths", "clear", "kinds"}

\* the paths that have handled the content after the path `op` did
PathsWith(paths, op) ==
    LET path == IF op = "notify" THEN "push" ELSE "poll"
    IN  IF paths \in {"none", path} THEN path ELSE "both"

KindOfCopy(p) ==
    IF ~p.hasImage /\ ~Blank(p.text) /\ p.text # lastClip THEN "fresh"
    ELSE IF /\ cb.hasImage /\ p.hasImage /\ ~isNull(p.img) /\ ~isNull(cb.img)
            /\ run.inserted >= 1
            /\ p.img.w = cb.img.w /\ p.img.h = cb.img.h /\ p.img.fmt = cb.img.fmt
            /\ p.img.px # cb.img.px
         THEN "twin"
         ELSE "plain"

NoInsertion ==
    [kind |-> "none", text |-> Empty, img |-> NullImage, wb |-> FALSE,
     wbBefore |-> FALSE, dup |-> FALSE]

\* the content of a new entry, compared with the insertion before it
Insertion(item, fs) ==
    LET kind == IF item.is_image THEN "image" ELSE "text"
        text == IF item.is_image THEN Empty ELSE item.text_content
        img == IF item.is_image THEN fs[item.image_path] ELSE NullImage
    IN  [kind |-> kind, text |-> text, img |-> img, wb |-> FALSE,
         wbBefore |-> lastIns.wb,
         dup |-> (lastIns.kind = kind /\ lastIns.text = text /\ lastIns.img = img)]

\* history of a detection step: `failed` says that image.save returned False
HistMonitor(op, failed) ==
    LET n == Len(all_items') - Len(all_items)
    IN  /\ lastOp' = IF TracksOp THEN (IF failed THEN "saveFailed" ELSE op)
                      ELSE lastOp
        /\ run' = IF TracksRun
                  THEN [run EXCEPT
                          !.presented = IF ~selecting_from_app /\ ~failed
                                        THEN Min(@ + 1, 2) ELSE @,
                          !.ignored = @ \/ selecting_from_app,
                          !.inserted = Min(@ + n, 2),
                          !.paths = IF track = "paths" /\ ~selecting_from_app
                                    THEN PathsWith(@, op) ELSE @]
                  ELSE run
        /\ lastIns' = IF track = "ins" /\ n > 0
                      THEN Insertion(all_items'[1], files')
                      ELSE lastIns
        /\ alive
        /\ UNCHANGED << track, alive >>

\* history of a step of the user or the environment that writes no clipboard
HistUser(op) ==
    /\ lastOp' = IF TracksOp THEN op ELSE lastOp
    /\ alive
    /\ UNCHANGED << track, alive >>

\* history of selectItem's write to the clipboard
WrittenBack ==
    /\ run' = IF TracksRun THEN NewRun("wb") ELSE run
    /\ lastIns' = IF track = "ins" THEN [lastIns EXCEPT !.wb = TRUE] ELSE lastIns

\* ------------------------------------------------------- the model's start
InitFor(t, payloads) ==
    /\ all_items = << >>
    /\ display = << >>
    /\ selected = 0
    /\ searchText = Empty
    /\ lastClip = Empty
    /\ lastImageHash = None
    /\ lastMimeDataHash = None
    /\ selecting_from_app = FALSE
    /\ timers = 0
    /\ dialog = NoDialog
    /\ cb \in payloads
    /\ files = << >>
    /\ nextOrder = 1
    /\ alive = TRUE
    /\ track = t
    /\ lastOp = "init"
    /\ run = IF t \in {"run", "paths", "clear", "kinds"}
             THEN NewRun(IF ~cb.hasImage /\ ~Blank(cb.text) THEN "fresh" ELSE "plain")
             ELSE NewRun("plain")
    /\ lastIns = NoInsertion

\* -------------------------------------------------------------- the monitor
\* mutant of imageIsNew: the image is not compared with the one seen last
imageIsNew_Always(image) == TRUE

\* line 552: the image differs from the one seen last
imageIsNew(image) == imageHash(image) # lastImageHash

\* mutant of textIsNew: the comparison with lastClip is lost
textIsNew_NoDedup(newClip) == ~Blank(newClip)

\* mutant of textIsNew: the strip() test is lost
textIsNew_NoStrip(newClip) == newClip # lastClip

\* line 574: the text differs from the one seen last and is not blank
textIsNew(newClip) == newClip # lastClip /\ ~Blank(newClip)

noInsert ==
    UNCHANGED << all_items, display, selected, lastClip, lastImageHash,
                 lastMimeDataHash, files, nextOrder >>

\* mutant of insertHead: the entry is appended
insertHead_Append(items, item) == Append(items, item)

\* self.all_items.insert(0, item)
insertHead(items, item) == << item >> \o items

\* mutant of saved: the value image.save returns is not looked at
saved_Always(saveOk) == TRUE

\* the value image.save returns (line 559)

saved(saveOk) == saveOk

\* mutant of saveFailed: the hash of the image is kept although it was not saved
saveFailed_KeepsHash ==
    /\ lastImageHash' = imageHash(cb.img)
    /\ UNCHANGED << all_items, display, selected, lastClip, lastMimeDataHash,
                    files, nextOrder >>

\* line 559, image.save returned False: addItem falls through
saveFailed == noInsert

\* mutant of insertImage: one last-seen value for both kinds, so that recording
\* an image forgets the text seen last
insertImage_ForgetsText(image, mime_hash, saveOk) ==
    LET image_filename == ImageFilename(nextOrder)
        image_path == ImagePath(nextOrder)
        item == ImageListWidgetItem(image_filename, image_path, TRUE, nextOrder)
    IN  /\ nextOrder <= Cap
        /\ files' = IF saveOk
                    THEN [q \in (DOMAIN files) \cup {image_path} |->
                             IF q = image_path THEN image ELSE files[q]]
                    ELSE files
        /\ all_items' = insertHead(all_items, item)
        /\ display' = updateDisplay(all_items', searchText)
        /\ selected' = 0
        /\ lastImageHash' = imageHash(image)
        /\ lastMimeDataHash' = mime_hash
        /\ nextOrder' = nextOrder + 1
        /\ lastClip' = Empty

\* lines 553-570: save the image and, if it was saved, record it; image.save
\* writes the file when it returns True
insertImage(image, mime_hash, saveOk) ==
    LET image_filename == ImageFilename(nextOrder)
        image_path == ImagePath(nextOrder)
        item == ImageListWidgetItem(image_filename, image_path, TRUE, nextOrder)
    IN  /\ nextOrder <= Cap
        /\ files' = IF saveOk
                    THEN [q \in (DOMAIN files) \cup {image_path} |->
                             IF q = image_path THEN image ELSE files[q]]
                    ELSE files
        /\ all_items' = insertHead(all_items, item)
        /\ display' = updateDisplay(all_items', searchText)
        /\ selected' = 0
        /\ lastImageHash' = imageHash(image)
        /\ lastMimeDataHash' = mime_hash
        /\ nextOrder' = nextOrder + 1
        /\ UNCHANGED lastClip

\* lines 575-585: record the text
insertText(newClip, mime_hash) ==
    LET item == ImageListWidgetItem(newClip, None, FALSE, nextOrder)
    IN  /\ nextOrder <= Cap
        /\ all_items' = insertHead(all_items, item)
        /\ display' = updateDisplay(all_items', searchText)
        /\ selected' = 0
        /\ lastClip' = newClip
        /\ lastMimeDataHash' = mime_hash
        /\ nextOrder' = nextOrder + 1
        /\ UNCHANGED << lastImageHash, files >>

addItem(saveOk) ==
    LET newClip == cb.text
        hasImage == cb.hasImage
        mime_hash == getMimeDataHash(cb)
    IN  IF hasImage
        THEN LET image == cb.img
             IN  IF ~isNull(image) /\ imageIsNew(image)
                 THEN IF saved(saveOk)
                      THEN insertImage(image, mime_hash, saveOk)
                      ELSE saveFailed
                 ELSE noInsert
        ELSE IF textIsNew(newClip)
             THEN insertText(newClip, mime_hash)
             ELSE noInsert

\* the poll's own test before it calls addItem (line 470)
pollSeesChange ==
    LET newClip == cb.text
        mime_hash == getMimeDataHash(cb)
    IN  (newClip # lastClip /\ ~Blank(newClip)) \/ mime_hash # lastMimeDataHash

\* addItem reaches image.save and it returns False
SaveFails(saveOk) ==
    cb.hasImage /\ ~isNull(cb.img) /\ imageIsNew(cb.img) /\ ~saveOk

\* the guard of the push path (line 454)
notifyRuns == ~selecting_from_app

\* mutant of pollRuns: the poll does not look at the flag
pollRuns_Always == TRUE

\* the guard of the poll path (line 460)
pollRuns == ~selecting_from_app

onClipboardChanged(saveOk) ==
    /\ IF notifyRuns THEN addItem(saveOk) ELSE noInsert
    /\ UNCHANGED << searchText, selecting_from_app, timers, dialog, cb >>
    /\ HistMonitor("notify", notifyRuns /\ SaveFails(saveOk))

checkClipboardChanges(saveOk) ==
    /\ IF ~pollRuns
       THEN noInsert
       ELSE IF pollSeesChange THEN addItem(saveOk) ELSE noInsert
    /\ UNCHANGED << searchText, selecting_from_app, timers, dialog, cb >>
    /\ HistMonitor("poll", pollRuns /\ pollSeesChange /\ SaveFails(saveOk))

\* ---------------------------------------------------------- the environment
\* another program copies something: the clipboard takes the payload p
SetClipboard(p) ==
    /\ cb' = p
    /\ run' = IF TracksRun /\ p # cb THEN NewRun(KindOfCopy(p)) ELSE run
    /\ HistUser("copy")
    /\ UNCHANGED << all_items, display, selected, searchText, lastClip,
                    lastImageHash, lastMimeDataHash, selecting_from_app,
                    timers, dialog, files, nextOrder, lastIns >>

\* QTimer.singleShot(100, ...) of selectItem fires (line 614)
TimerFire ==
    /\ timers > 0
    /\ timers' = timers - 1
    /\ selecting_from_app' = FALSE
    /\ HistUser("timer")
    /\ UNCHANGED << all_items, display, selected, searchText, lastClip,
                    lastImageHash, lastMimeDataHash, dialog, cb, files,
                    nextOrder, run, lastIns >>

\* ------------------------------------------------------ the user's actions
\* the clipboard after CB.setText(t)
TextPayload(t) == [text |-> t, hasImage |-> FALSE, img |-> NullImage]

\* the clipboard after CB.setImage(image)
ImagePayload(image) == [text |-> Empty, hasImage |-> TRUE, img |-> image]

\* mutant of writeText: lastClip is not set to the text written
writeText_NoHash(text2clip) ==
    /\ cb' = TextPayload(text2clip)
    /\ WrittenBack
    /\ UNCHANGED << lastClip, lastImageHash >>

\* lines 609-611: write the text back
writeText(text2clip) ==
    /\ cb' = TextPayload(text2clip)
    /\ lastClip' = text2clip
    /\ WrittenBack
    /\ UNCHANGED lastImageHash

\* mutant of writeImage: lastImageHash is not set to the hash of the image written
writeImage_NoHash(image) ==
    IF ~isNull(image)
    THEN /\ cb' = ImagePayload(image)
         /\ WrittenBack
         /\ UNCHANGED << lastClip, lastImageHash >>
    ELSE UNCHANGED << cb, lastClip, lastImageHash, run, lastIns >>

\* lines 602-606: load the image and write it back
writeImage(image) ==
    IF ~isNull(image)
    THEN /\ cb' = ImagePayload(image)
         /\ lastImageHash' = imageHash(image)
         /\ WrittenBack
         /\ UNCHANGED lastClip
    ELSE UNCHANGED << cb, lastClip, lastImageHash, run, lastIns >>

\* line 597: the flag that suppresses the monitor
suppress == selecting_from_app' = TRUE

\* mutant of selectItem: the reset of the flag is not scheduled
selectItem_NoTimer(rows, sel) ==
    IF sel = 0
    THEN UNCHANGED << selecting_from_app, timers, cb, lastClip, lastImageHash,
                      run, lastIns >>
    ELSE LET item == rows[sel]
         IN  /\ suppress
             /\ UNCHANGED timers
             /\ IF item.is_image
                THEN IF item.image_path # None /\ item.image_path \in DOMAIN files
                     THEN writeImage(files[item.image_path])
                     ELSE UNCHANGED << cb, lastClip, lastImageHash, run, lastIns >>
                ELSE writeText(get_content(item))

\* selectItem on the rows `rows` with row `sel` selected (0: none)
selectItem(rows, sel) ==
    IF sel = 0
    THEN UNCHANGED << selecting_from_app, timers, cb, lastClip, lastImageHash,
                      run, lastIns >>
    ELSE LET item == rows[sel]
         IN  /\ timers < MaxTimers
             /\ suppress
             /\ timers' = timers + 1
             /\ IF item.is_image
                THEN IF item.image_path # None /\ item.image_path \in DOMAIN files
                     THEN writeImage(files[item.image_path])
                     ELSE UNCHANGED << cb, lastClip, lastImageHash, run, lastIns >>
                ELSE writeText(get_content(item))

\* the user clicks row i of the list: the row is selected, `clicked` fires
Click(i) ==
    /\ dialog = NoDialog
    /\ i \in 1..Len(display)
    /\ selected' = i
    /\ selectItem(display, i)
    /\ HistUser("select")
    /\ UNCHANGED << all_items, display, searchText, lastMimeDataHash, dialog,
                    files, nextOrder >>

\* mutant of editRow: the is_image test is lost, every row opens the dialog
editRow_AnyKind(display_item) ==
    /\ dialog' = [text2edit |-> get_content(display_item),
                  order |-> display_item.order]
    /\ UNCHANGED << selecting_from_app, timers, cb, lastClip,
                    lastImageHash, run, lastIns >>

\* lines 502-508: an image row is handed to selectItem, a text row opens the dialog
editRow(display_item) ==
    IF display_item.is_image
    THEN /\ selectItem(display, selected)
         /\ UNCHANGED dialog
    ELSE /\ dialog' = [text2edit |-> get_content(display_item),
                       order |-> display_item.order]
         /\ UNCHANGED << selecting_from_app, timers, cb, lastClip,
                         lastImageHash, run, lastIns >>

\* editItem up to the point where the dialog is shown (lines 496-508)
editItem ==
    /\ dialog = NoDialog
    /\ IF selected = 0
       THEN /\ UNCHANGED << selecting_from_app, timers, cb, lastClip,
                            lastImageHash, run, lastIns, dialog >>
            /\ HistUser("editNone")
       ELSE /\ editRow(display[selected])
            /\ HistUser(IF display[selected].is_image THEN "editImage" ELSE "edit")
    /\ UNCHANGED << all_items, display, selected, searchText, lastMimeDataHash,
                    files, nextOrder >>

\* lines 511-514: the first text entry whose content is text2edit, 0 if none
editTarget(items, text2edit) ==
    LET hits == {k \in 1..Len(items) :
                    ~items[k].is_image /\ get_content(items[k]) = text2edit}
    IN  IF hits = {} THEN 0 ELSE CHOOSE k \in hits : \A j \in hits : k <= j

\* mutant of accepted: the text of the dialog is not tested
accepted_AnyText(text, okPressed) == okPressed

\* line 509: if okPressed and text != ''
accepted(text, okPressed) == okPressed /\ text # Empty

\* editItem after QInputDialog.getText returned (lines 509-518)
editCommit(text, okPressed) ==
    /\ dialog # NoDialog
    /\ dialog' = NoDialog
    /\ IF accepted(text, okPressed)
       THEN LET k == editTarget(all_items, dialog.text2edit)
            IN  /\ all_items' = IF k = 0 THEN all_items
                                ELSE [all_items EXCEPT ![k].text_content = text]
                /\ display' = updateDisplay(all_items', searchText)
                /\ selected' = 0
                /\ selectItem(display', selected')
                /\ HistUser("editCommit")
       ELSE /\ UNCHANGED << all_items, display, selected, selecting_from_app,
                            timers, cb, lastClip, lastImageHash, run, lastIns >>
            /\ HistUser(IF okPressed THEN "editEmpty" ELSE "editCancel")
    /\ UNCHANGED << searchText, lastMimeDataHash, files, nextOrder >>

\* lines 624-644: the first entry that matches the selected row, 0 if none
deleteTarget(items, display_item) ==
    LET hits == {k \in 1..Len(items) :
                    /\ display_item.is_image = items[k].is_image
                    /\ IF display_item.is_image
                       THEN display_item.image_path = items[k].image_path
                       ELSE get_content(display_item) = get_content(items[k])}
    IN  IF hits = {} THEN 0 ELSE CHOOSE k \in hits : \A j \in hits : k <= j

\* self.all_items.pop(k)
pop(items, k) ==
    [j \in 1..(Len(items) - 1) |-> IF j < k THEN items[j] ELSE items[j + 1]]

\* mutant of removeFiles: os.remove is not called
removeFiles_None(paths, failing) == files

\* the files left after os.remove was tried on `paths`; those in `failing` raise
removeFiles(paths, failing) ==
    [q \in (DOMAIN files) \ (paths \ failing) |-> files[q]]

deleteItem(rmOk) ==
    /\ dialog = NoDialog
    /\ IF selected = 0
       THEN /\ UNCHANGED << all_items, display, selected, files >>
            /\ HistUser("deleteNone")
       ELSE LET display_item == display[selected]
                k == deleteTarget(all_items, display_item)
            IN  /\ all_items' = IF k = 0 THEN all_items ELSE pop(all_items, k)
                /\ files' = IF k # 0 /\ all_items[k].is_image
                                 /\ all_items[k].image_path # None /\ rmOk
                            THEN removeFiles({all_items[k].image_path}, {})
                            ELSE files
                /\ display' = updateDisplay(all_items', searchText)
                /\ selected' = 0
                /\ HistUser("delete")
    /\ UNCHANGED << searchText, lastClip, lastImageHash, lastMimeDataHash,
                    selecting_from_app, timers, dialog, cb, nextOrder, run,
                    lastIns >>

\* the paths of the image entries
imagePaths(items) ==
    {items[k].image_path : k \in {j \in 1..Len(items) :
                                     items[j].is_image /\ items[j].image_path # None}}

\* mutant of clearList: the last-seen values are reset with the store
clearList_ResetsMonitor(failing) ==
    /\ dialog = NoDialog
    /\ failing \subseteq imagePaths(all_items)
    /\ files' = removeFiles(imagePaths(all_items), failing)
    /\ all_items' = << >>
    /\ display' = << >>
    /\ searchText' = Empty
    /\ selected' = 0
    /\ lastClip' = Empty
    /\ lastImageHash' = None
    /\ HistUser(IF imagePaths(all_items) = {} THEN "clear" ELSE "clearImages")
    /\ UNCHANGED << lastMimeDataHash, selecting_from_app, timers, dialog, cb,
                    nextOrder, run, lastIns >>

clearList(failing) ==
    /\ dialog = NoDialog
    /\ failing \subseteq imagePaths(all_items)
    /\ files' = removeFiles(imagePaths(all_items), failing)
    /\ all_items' = << >>
    /\ display' = << >>
    /\ searchText' = Empty
    /\ selected' = 0
    /\ HistUser(IF imagePaths(all_items) = {} THEN "clear" ELSE "clearImages")
    /\ UNCHANGED << lastClip, lastImageHash, lastMimeDataHash,
                    selecting_from_app, timers, dialog, cb, nextOrder, run,
                    lastIns >>

\* the user changes the text of the search bar to q
onSearchTextChanged(q) ==
    /\ dialog = NoDialog
    /\ q # searchText
    /\ searchText' = q
    /\ display' = filterItems(all_items, q)
    /\ selected' = 0
    /\ HistUser("search")
    /\ UNCHANGED << all_items, lastClip, lastImageHash, lastMimeDataHash,
                    selecting_from_app, timers, dialog, cb, files, nextOrder,
                    run, lastIns >>

\* mutant of clearSearch: the store is cleared with the search bar
clearSearch_ClearsStore ==
    /\ dialog = NoDialog
    /\ searchText # Empty
    /\ searchText' = Empty
    /\ all_items' = << >>
    /\ display' = << >>
    /\ selected' = 0
    /\ HistUser("clearSearch")
    /\ UNCHANGED << lastClip, lastImageHash, lastMimeDataHash,
                    selecting_from_app, timers, dialog, cb, files, nextOrder,
                    run, lastIns >>

\* the clear button of the search bar; it is shown while there is a text
clearSearch ==
    /\ dialog = NoDialog
    /\ searchText # Empty
    /\ searchText' = Empty
    /\ display' = showAllItems(all_items)
    /\ selected' = 0
    /\ HistUser("clearSearch")
    /\ UNCHANGED << all_items, lastClip, lastImageHash, lastMimeDataHash,
                    selecting_from_app, timers, dialog, cb, files, nextOrder,
                    run, lastIns >>

\* an image file disappears from the images directory behind the program's back
ExternalRemove(path) ==
    /\ path \in DOMAIN files
    /\ files' = [q \in (DOMAIN files) \ {path} |-> files[q]]
    /\ HistUser("fileGone")
    /\ UNCHANGED << all_items, display, selected, searchText, lastClip,
                    lastImageHash, lastMimeDataHash, selecting_from_app,
                    timers, dialog, cb, nextOrder, run, lastIns >>

\* ------------------------------------------------- the life of the process
\* SystemTrayIcon.exit_action: the window is closed and sys.exit() ends the
\* process; the objects of the process are gone, the image files are not touched
exit_action ==
    /\ alive
    /\ alive' = FALSE
    /\ all_items' = << >>
    /\ display' = << >>
    /\ selected' = 0
    /\ searchText' = Empty
    /\ lastClip' = Empty
    /\ lastImageHash' = None
    /\ lastMimeDataHash' = None
    /\ selecting_from_app' = FALSE
    /\ timers' = 0
    /\ dialog' = NoDialog
    /\ lastOp' = IF TracksOp THEN "exit" ELSE lastOp
    /\ UNCHANGED << cb, files, nextOrder, track, run, lastIns >>

\* mutant of cleanup_old_images: no file is removed at the start
cleanup_old_images_None(failing) == files

\* the files left by cleanup_old_images; os.remove raises for those in `failing`
cleanup_old_images(failing) ==
    [q \in (DOMAIN files) \cap failing |-> files[q]]

\* Clipboard.__init__ in a new process: the images directory exists, so the
\* image files of earlier runs are removed; initUI sets the fields
Clipboard_init(failing) ==
    /\ ~alive
    /\ alive' = TRUE
    /\ failing \subseteq DOMAIN files
    /\ files' = cleanup_old_images(failing)
    /\ lastOp' = IF TracksOp
                 THEN (IF DOMAIN files = {} THEN "start" ELSE "startCleanup")
                 ELSE lastOp
    /\ UNCHANGED << all_items, display, selected, searchText, lastClip,
                    lastImageHash, lastMimeDataHash, selecting_from_app,
                    timers, dialog, cb, nextOrder, track, run, lastIns >>

\* ------------------------------------------------------- the specifications
\* the monitor, the selection bridge and the store; files are removed without
\* error and the search bar stays empty
Next ==
    \/ \E saveOk \in BOOLEAN : onClipboardChanged(saveOk)
    \/ \E saveOk \in BOOLEAN : checkClipboardChanges(saveOk)
    \/ \E p \in ClipPayloads : SetClipboard(p)
    \/ TimerFire
    \/ \E i \in 1..MaxInserts : Click(i)
    \/ editItem
    \/ \E text \in EditTexts, okPressed \in BOOLEAN : editCommit(text, okPressed)
    \/ deleteItem(TRUE)
    \/ clearList({})

\* records history "run"
Spec == InitFor("run", ClipPayloads) /\ [][Next]_vars

\* records history "ins"
SpecIns == InitFor("ins", ClipPayloads) /\ [][Next]_vars

\* records history "op"
SpecOp == InitFor("op", ClipPayloads) /\ [][Next]_vars

\* the monitor, the selection bridge, delete and clear; no entry is edited
NextPaths ==
    \/ \E saveOk \in BOOLEAN : onClipboardChanged(saveOk)
    \/ \E saveOk \in BOOLEAN : checkClipboardChanges(saveOk)
    \/ \E p \in ClipPayloads : SetClipboard(p)
    \/ TimerFire
    \/ \E i \in 1..MaxInserts : Click(i)
    \/ deleteItem(TRUE)
    \/ clearList({})

\* records history "paths"
SpecPaths == InitFor("paths", ClipPayloads) /\ [][NextPaths]_vars

\* the same handlers with two texts and one image to copy, and one entry more
NextOrder ==
    \/ \E saveOk \in BOOLEAN : onClipboardChanged(saveOk)
    \/ \E saveOk \in BOOLEAN : checkClipboardChanges(saveOk)
    \/ \E p \in StorePayloads : SetClipboard(p)
    \/ TimerFire
    \/ \E i \in 1..MaxInserts + 1 : Click(i)
    \/ editItem
    \/ \E text \in EditTexts, okPressed \in BOOLEAN : editCommit(text, okPressed)
    \/ deleteItem(TRUE)
    \/ clearList({})

SpecOrder == InitFor("order", StorePayloads) /\ [][NextOrder]_vars

\* the monitor, selection, delete and clear where image.save and os.remove may
\* fail and image files may disappear from the images directory
NextFile ==
    \/ \E saveOk \in BOOLEAN : onClipboardChanged(saveOk)
    \/ \E saveOk \in BOOLEAN : checkClipboardChanges(saveOk)
    \/ \E p \in FilePayloads : SetClipboard(p)
    \/ TimerFire
    \/ \E i \in 1..MaxInserts : Click(i)
    \/ \E rmOk \in BOOLEAN : deleteItem(rmOk)
    \/ \E failing \in SUBSET imagePaths(all_items) : clearList(failing)
    \/ \E path \in DOMAIN files : ExternalRemove(path)

SpecFile == InitFor("file", FilePayloads) /\ [][NextFile]_vars

\* the monitor and the user's handlers with the search bar in use
NextSearch ==
    \/ \E saveOk \in BOOLEAN : onClipboardChanged(saveOk)
    \/ \E saveOk \in BOOLEAN : checkClipboardChanges(saveOk)
    \/ \E p \in SearchPayloads : SetClipboard(p)
    \/ TimerFire
    \/ \E i \in 1..MaxInserts : Click(i)
    \/ editItem
    \/ \E text \in EditTexts, okPressed \in BOOLEAN : editCommit(text, okPressed)
    \/ deleteItem(TRUE)
    \/ clearList({})
    \/ \E q \in Queries : onSearchTextChanged(q)
    \/ clearSearch

SpecSearch == InitFor("search", SearchPayloads) /\ [][NextSearch]_vars

\* the monitor, the selection bridge and the edit dialog; every pending
\* QTimer.singleShot fires after its delay, as the event loop of the window
\* and that of the modal dialog both run timers
NextLive ==
    \/ \E saveOk \in BOOLEAN : onClipboardChanged(saveOk)
    \/ \E saveOk \in BOOLEAN : checkClipboardChanges(saveOk)
    \/ \E p \in FilePayloads : SetClipboard(p)
    \/ TimerFire
    \/ \E i \in 1..MaxInserts : Click(i)
    \/ editItem
    \/ \E text \in EditTexts, okPressed \in BOOLEAN : editCommit(text, okPressed)

SpecLive ==
    InitFor("live", FilePayloads) /\ [][NextLive]_vars /\ WF_vars(TimerFire)

\* the monitor, selection, delete and clear, the exit from the tray menu and
\* the next start of the program; no file operation fails
NextExit ==
    \/ \E saveOk \in BOOLEAN : onClipboardChanged(saveOk)
    \/ \E saveOk \in BOOLEAN : checkClipboardChanges(saveOk)
    \/ \E p \in FilePayloads : SetClipboard(p)
    \/ TimerFire
    \/ \E i \in 1..MaxInserts : Click(i)
    \/ deleteItem(TRUE)
    \/ clearList({})
    \/ exit_action
    \/ Clipboard_init({})

SpecExit == InitFor("exit", FilePayloads) /\ [][NextExit]_vars

\* the monitor, the selection bridge, delete and clear, with the two texts
\* and images of the file runs to copy
NextClear ==
    \/ \E saveOk \in BOOLEAN : onClipboardChanged(saveOk)
    \/ \E saveOk \in BOOLEAN : checkClipboardChanges(saveOk)
    \/ \E p \in FilePayloads : SetClipboard(p)
    \/ TimerFire
    \/ \E i \in 1..MaxInserts : Click(i)
    \/ deleteItem(TRUE)
    \/ clearList({})

\* records the histories "op" and "run"
SpecClear == InitFor("clear", FilePayloads) /\ [][NextClear]_vars

\* the monitor alone: other programs copy, the monitor records; one entry more
NextKinds ==
    \/ \E saveOk \in BOOLEAN : onClipboardChanged(saveOk)
    \/ \E saveOk \in BOOLEAN : checkClipboardChanges(saveOk)
    \/ \E p \in ClipPayloads : SetClipboard(p)

SpecKinds == InitFor("kinds", ClipPayloads) /\ [][NextKinds]_vars

\* the monitor and the user's handlers, where the user may also leave a text
\* of spaces in the edit dialog
NextEdit ==
    \/ \E saveOk \in BOOLEAN : onClipboardChanged(saveOk)
    \/ \E saveOk \in BOOLEAN : checkClipboardChanges(saveOk)
    \/ \E p \in StorePayloads : SetClipboard(p)
    \/ TimerFire
    \/ \E i \in 1..MaxInserts : Click(i)
    \/ editItem
    \/ \E text \in EditTextsBlank, okPressed \in BOOLEAN : editCommit(text, okPressed)
    \/ deleteItem(TRUE)
    \/ clearList({})

SpecEdit == InitFor("edit", StorePayloads) /\ [][NextEdit]_vars

\* ------------------------------------------------------------------ claims
TextOnly == ~cb.hasImage

\* C1: a text that was new when it was copied, and was then handed to the
\* idle monitor once or more (by notifications and poll ticks in any mix)
\* while it stayed on the clipboard, has been inserted exactly once.
C1_DedupIdempotence ==
    (run.kind = "fresh" /\ run.presented >= 1) => run.inserted = 1

\* the same text was presented twice and the store holds it once, at the head
C1_Witness ==
    /\ run.kind = "fresh" /\ run.presented = 2 /\ run.inserted = 1
    /\ TextOnly /\ all_items # << >> /\ all_items[1].text_content = cb.text

\* C2: while the clipboard holds what selectItem wrote, no notification and no
\* poll tick inserts an entry, neither the suppressed one that follows the
\* write at once nor a later one.
C2_WriteBackSuppression == run.kind = "wb" => run.inserted = 0

\* a notification arrived while the monitor was still suppressed by the
\* selection, and another detection step ran after the flag was reset
C2_Witness ==
    /\ run.kind = "wb" /\ run.ignored /\ run.presented >= 1
    /\ all_items # << >>

\* C3: the second of two images that differ only in their pixel bytes, copied
\* right after the first was recorded and handed to the idle monitor, is
\* inserted as an entry of its own.
C3_FingerprintSensitivity ==
    (run.kind = "twin" /\ run.presented >= 1) => run.inserted >= 1

\* C4: a notification or a poll tick that arrives while selecting_from_app is
\* set changes neither the store nor the last-seen hashes.
C4_SuppressedIsInert ==
    [][(selecting_from_app /\ \E saveOk \in BOOLEAN :
            onClipboardChanged(saveOk) \/ checkClipboardChanges(saveOk))
        => UNCHANGED << all_items, display, lastClip, lastImageHash,
                        lastMimeDataHash, files >>]_vars

\* a detection step was ignored while the clipboard held content the idle
\* monitor would insert
C4_Witness ==
    /\ selecting_from_app /\ run.ignored
    /\ \/ cb.hasImage /\ ~isNull(cb.img) /\ imageHash(cb.img) # lastImageHash
       \/ TextOnly /\ ~Blank(cb.text) /\ cb.text # lastClip

NewestFirst ==
    \A i, j \in 1..Len(all_items) :
        i < j => all_items[i].order > all_items[j].order

\* C5: the store is newest-first in every state, and a step that adds an entry
\* puts it at index 0 and leaves the entries behind it as they were.
C5_OrderInvariant ==
    /\ []NewestFirst
    /\ [][Len(all_items') > Len(all_items) =>
            /\ Tail(all_items') = all_items
            /\ all_items'[1].order = nextOrder]_vars

\* three entries were inserted and read E3, E2, E1
C5_Witness ==
    /\ Len(all_items) = 3
    /\ all_items[1].order = 3 /\ all_items[2].order = 2 /\ all_items[3].order = 1

\* C6: while the clipboard holds only an empty or blank text, no notification
\* and no poll tick inserts an entry, whatever the last-seen values are.
C6_BlankGuard == (TextOnly /\ Blank(cb.text)) => run.inserted = 0

\* a blank text that differs from lastClip and from lastMimeDataHash was
\* handed to the idle monitor twice
C6_Witness ==
    /\ TextOnly /\ cb.text = Space /\ run.presented = 2
    /\ lastClip # cb.text /\ lastMimeDataHash # cb.text

\* C7 as stated: no insertion carries the content of the insertion before it.
C7_NoConsecutiveDuplicate == ~lastIns.dup

\* C7 as amended: an insertion carries the content of the insertion before it
\* only if selectItem wrote to the clipboard between the two.
C7_NoDuplicateWithoutWriteBack == lastIns.dup => lastIns.wbBefore

\* two insertions with no write-back between them: the second is a text and
\* the one before it was a text as well
C7_Witness ==
    /\ nextOrder >= 3 /\ ~lastIns.wbBefore /\ ~lastIns.dup
    /\ lastIns.kind = "text" /\ Len(all_items) >= 2
    /\ ~all_items[1].is_image /\ ~all_items[2].is_image

\* the index of the entry with creation index `order`, 0 if it is gone
IndexOf(items, order) ==
    IF \E k \in 1..Len(items) : items[k].order = order
    THEN CHOOSE k \in 1..Len(items) : items[k].order = order
    ELSE 0

\* C8: an accepted edit replaces the text of the entry the user selected, at
\* its index, and changes nothing else in the store.
C8_EditByIdentity ==
    [][\A text \in EditTexts, okPressed \in BOOLEAN :
          editCommit(text, okPressed) =>
              all_items' =
                  IF okPressed /\ text # Empty
                  THEN [all_items EXCEPT
                          ![IndexOf(all_items, dialog.order)].text_content = text]
                  ELSE all_items]_vars

\* C9: delete removes the entry the user selected and no other, and does
\* nothing when no row is selected.
C9_RemoveByIdentity ==
    [][deleteItem(TRUE) =>
          all_items' =
              IF selected = 0 THEN all_items
              ELSE SelectSeq(all_items,
                             LAMBDA e : e.order # display[selected].order)]_vars

\* C10: an edit request on an image row opens no edit dialog and leaves the
\* store, the rows and the files as they were.
C10_EditImageNoOp ==
    [][(editItem /\ selected # 0 /\ display[selected].is_image) =>
          /\ all_items' = all_items
          /\ display' = display
          /\ files' = files
          /\ dialog' = NoDialog]_vars

\* an edit request on an image row was handled
C10_Witness ==
    /\ lastOp = "editImage" /\ selected # 0 /\ display[selected].is_image
    /\ dialog = NoDialog

\* a detection step that reaches image.save and gets False from it
FailedSave ==
    \/ onClipboardChanged(FALSE) /\ notifyRuns /\ SaveFails(FALSE)
    \/ checkClipboardChanges(FALSE) /\ pollRuns /\ pollSeesChange /\ SaveFails(FALSE)

C12_ClearCleans ==
    [][\A failing \in SUBSET imagePaths(all_items) :
          clearList(failing) =>
              /\ all_items' = << >>
              /\ display' = << >>
              /\ \A path \in imagePaths(all_items) \ failing :
                     path \notin DOMAIN files']_vars

\* a store that held image entries was cleared and no image file is left
C12_Witness ==
    /\ lastOp = "clearImages" /\ all_items = << >> /\ display = << >>
    /\ DOMAIN files = {} /\ nextOrder = 3

\* a store that held an image entry was cleared although os.remove failed
C12_WitnessFailing ==
    /\ lastOp = "clearImages" /\ all_items = << >> /\ DOMAIN files # {}

\* the text t contains the query q when the case of the letters is ignored
ContainsIgnoringCase(q, t) ==
    \E k \in 0..(Len(t) - Len(q)) :
        \A i \in 1..Len(q) : LowerChar(t[k + i]) = LowerChar(q[i])

TextStore == \A k \in 1..Len(all_items) : ~all_items[k].is_image

\* C13: while the store holds text entries only, the rows are exactly the
\* entries whose text contains the query, case ignored, in the order of the
\* store; with an empty query they are the whole store.
C13_SearchCorrectness ==
    TextStore =>
        display = SelectSeq(all_items,
                            LAMBDA e : ContainsIgnoringCase(searchText, e.text_content))

\* the store reads "Ab", "b"; the query "a" shows the first entry only and the
\* query "B" would show both
C13_Witness ==
    /\ TextStore /\ Len(all_items) = 2 /\ searchText = TextA
    /\ all_items[1].text_content = TextAb /\ all_items[2].text_content = TextB
    /\ display = << all_items[1] >>
    /\ filterItems(all_items, QueryB) = all_items

\* the file name of an image entry is its text_content (line 561)
FilenameOf(item) == item.text_content

Shown(item) == \E r \in 1..Len(display) : display[r].order = item.order

\* C14: an image entry is among the rows exactly if the query is contained,
\* case ignored, in its file name.
C14_ImageMatchedByFilename ==
    \A k \in 1..Len(all_items) :
        all_items[k].is_image =>
            (Shown(all_items[k])
                <=> ContainsIgnoringCase(searchText, FilenameOf(all_items[k])))

\* what filterItems compares the query with (lines 706-711)
SearchableText(item) ==
    IF item.is_image
    THEN (IF item.image_path # None THEN item.image_path ELSE Empty)
    ELSE item.text_content

\* C15: in every state the rows are the entries of the store that filterItems
\* selects for the text of the search bar, in the order of the store.
C15_DisplayIsProjection ==
    display = SelectSeq(all_items,
                        LAMBDA e : ContainsIgnoringCase(searchText, SearchableText(e)))

\* the text on the clipboard was recorded while a query was in the search
\* bar; the new entry does not match it and only the older entry is shown
C15_Witness ==
    /\ searchText = TextA /\ Len(all_items) = 2
    /\ ~cb.hasImage /\ cb.text = TextB /\ lastClip = TextB
    /\ all_items[1].text_content = TextB /\ all_items[1].order = 2
    /\ display = << all_items[2] >>

\* C16: a change of the query and a click on the clear button of the search
\* bar leave the store, the files, the clipboard and the monitor state as they
\* were.
C16_SearchDoesNotMutate ==
    [][((\E q \in Queries : onSearchTextChanged(q)) \/ clearSearch) =>
          UNCHANGED << all_items, files, cb, lastClip, lastImageHash,
                       lastMimeDataHash, selecting_from_app, timers,
                       nextOrder >>]_vars

\* a query hides an entry of the store
C16_Witness ==
    /\ searchText = QueryB /\ Len(all_items) = 2 /\ Len(display) = 1
    /\ all_items[1].is_image /\ display[1] = all_items[2]

\* C17: while the content of the clipboard stays as it is, the notifications
\* and the poll ticks that reach the idle monitor, in any order and number,
\* insert at most one entry between them.
C17_PushPollIdempotent == run.inserted <= 1

\* a notification and a poll tick have both handled the image on the
\* clipboard while the monitor was idle, and it was recorded once
C17_Witness ==
    /\ run.paths = "both" /\ run.presented = 2 /\ run.inserted = 1
    /\ cb.hasImage /\ all_items # << >> /\ all_items[1].is_image

\* the same for a text
C17_WitnessText ==
    /\ run.paths = "both" /\ run.presented = 2 /\ run.inserted = 1
    /\ TextOnly /\ all_items # << >> /\ all_items[1].text_content = cb.text

\* a step in which the user asks for an entry to be written to the clipboard
WriteBackRequest ==
    \/ \E i \in 1..MaxInserts : Click(i)
    \/ editItem /\ selected # 0 /\ display[selected].is_image

\* C18: every write-back request sets selecting_from_app and schedules a
\* reset; while the flag is set a reset is pending; and whenever the flag is
\* set, it is cleared again later.
C18_SuppressionEnds ==
    /\ [][WriteBackRequest => selecting_from_app' /\ timers' = timers + 1]_vars
    /\ [](selecting_from_app => timers > 0)
    /\ (selecting_from_app ~> ~selecting_from_app)

\* the monitor is suppressed by two selections whose resets are both pending
C18_Witness ==
    /\ selecting_from_app /\ timers = 2 /\ selected # 0
    /\ cb = TextPayload(get_content(display[selected]))

\* a click on an image row whose file is no longer in the images directory
SelectMissingFile ==
    \E i \in 1..MaxInserts :
        /\ Click(i)
        /\ display[i].is_image
        /\ display[i].image_path \notin DOMAIN files

\* C19: selecting an image row whose file is gone writes nothing to the
\* clipboard and leaves the store, the last-seen values and
\* selecting_from_app as they were.
C19_SelectMissingFileNoOp ==
    [][SelectMissingFile =>
          UNCHANGED << cb, all_items, lastClip, lastImageHash,
                       lastMimeDataHash, selecting_from_app >>]_vars

\* the part of C19 that the code keeps: all but the flag
C19_SelectMissingFileWritesNothing ==
    [][SelectMissingFile =>
          UNCHANGED << cb, all_items, lastClip, lastImageHash,
                       lastMimeDataHash >>]_vars

\* C20: a step that puts a new image entry into the store leaves the store
\* with the entry's file written, holding the image that was on the clipboard;
\* the store starts empty, so every image entry names a file whose save was
\* completed when the entry was inserted.
C20_StoreReferencesWrittenFiles ==
    [][\A k \in 1..Len(all_items') :
          (all_items'[k].is_image /\ IndexOf(all_items, all_items'[k].order) = 0)
              => /\ all_items'[k].image_path \in DOMAIN files'
                 /\ files'[all_items'[k].image_path] = cb.img]_vars

\* a detection step has just recorded the image on the clipboard as the
\* second entry, and its file holds the image
C20_Witness ==
    /\ lastOp \in {"notify", "poll"} /\ Len(all_items) = 2
    /\ all_items[1].is_image /\ all_items[1].order = nextOrder - 1
    /\ all_items[1].image_path \in DOMAIN files
    /\ files[all_items[1].image_path] = cb.img

\* every image file is the file of an entry of the store
NoOrphanFile == DOMAIN files \subseteq imagePaths(all_items)

\* C21 as stated: when no file operation fails, no image file is left without
\* its entry, neither after a delete nor after the process has exited.
C21_FilesDestroyedWithEntries == NoOrphanFile

\* C21 as amended: when no file operation fails, no image file is left
\* without its entry while the program runs; the files of the entries that
\* were in the store at exit stay until the program is started again.
C21_FilesDestroyedWhileRunning == alive => NoOrphanFile

\* the program was started again after it had exited with an image entry in
\* the store, and the file that the entry left behind is gone
C21_Witness ==
    /\ lastOp = "startCleanup" /\ alive /\ nextOrder >= 2
    /\ DOMAIN files = {} /\ all_items = << >>

\* an image entry was deleted and its file is gone
C21_WitnessDelete ==
    /\ lastOp = "delete" /\ alive /\ nextOrder = 2 /\ all_items = << >>
    /\ DOMAIN files = {} /\ lastImageHash # None

\* addItem, called now, inserts the content of the clipboard if image.save
\* succeeds (lines 545-574)
WouldInsert ==
    IF cb.hasImage
    THEN ~isNull(cb.img) /\ imageIsNew(cb.img)
    ELSE textIsNew(cb.text)

\* a poll tick of the idle monitor, with image.save succeeding, while the
\* clipboard holds content that a notification would insert
PollOfMissedContent ==
    checkClipboardChanges(TRUE) /\ ~selecting_from_app /\ WouldInsert

\* C22: a poll tick of the idle monitor inserts the content of the clipboard
\* whenever a notification would insert it, so content whose notification was
\* lost or ignored is recorded by the next idle poll tick.
C22_PollCatchesMissed ==
    [][PollOfMissedContent => Len(all_items') = Len(all_items) + 1]_vars

\* the part of C22 that the code keeps: the same for a clipboard without image
C22_PollCatchesMissedText ==
    [][(PollOfMissedContent /\ TextOnly) =>
          /\ Len(all_items') = Len(all_items) + 1
          /\ all_items'[1].text_content = cb.text]_vars

\* C23: while the reset scheduled by the most recent write-back is pending,
\* selecting_from_app stays set; the reset of an earlier write-back does not
\* clear it.
C23_SuppressedWhileResetPending == timers > 0 => selecting_from_app

\* a click on row i writes the row's content to the clipboard: a text row, or
\* an image row whose file is there
WritesBack(i) ==
    /\ Click(i)
    /\ display[i].is_image => display[i].image_path \in DOMAIN files

\* C24: a write-back leaves the last-seen value of the written kind equal to
\* what it wrote (lastClip the text, lastImageHash the hash of the image), and
\* while the clipboard holds what was written, addItem finds nothing to insert.
C24_WriteBackUpdatesHash ==
    /\ [][\A i \in 1..MaxInserts :
             WritesBack(i) =>
                 IF display[i].is_image
                 THEN /\ cb' = ImagePayload(files[display[i].image_path])
                      /\ lastImageHash' = imageHash(cb'.img)
                 ELSE /\ cb' = TextPayload(display[i].text_content)
                      /\ lastClip' = cb'.text]_vars
    /\ [](run.kind = "wb" => ~WouldInsert)

\* an image was written back, the monitor is idle again and a poll tick,
\* whose own test lets it through to addItem, has handled the image
C24_Witness ==
    /\ run.kind = "wb" /\ ~selecting_from_app /\ timers = 0
    /\ run.presented >= 1 /\ run.inserted = 0
    /\ cb.hasImage /\ lastImageHash = imageHash(cb.img)
    /\ lastMimeDataHash # imageHash(cb.img)

\* C25: deleteItem and clearList leave lastClip, lastImageHash,
\* lastMimeDataHash and selecting_from_app as they were, and content that was
\* recorded or written back while it has been on the clipboard is not inserted
\* again, also after its entry was deleted or the store was cleared.
C25_DeleteClearKeepMonitorState ==
    /\ [][(deleteItem(TRUE) \/ clearList({})) =>
             UNCHANGED << lastClip, lastImageHash, lastMimeDataHash,
                          selecting_from_app, timers, cb >>]_vars
    /\ []((run.inserted >= 1 \/ run.kind = "wb") => ~WouldInsert)

\* the content on the clipboard was recorded, the store was emptied, and a
\* later notification or poll tick of the idle monitor has left it empty
C25_Witness ==
    /\ lastOp \in {"notify", "poll"} /\ ~selecting_from_app
    /\ run.inserted = 1 /\ nextOrder = 2 /\ all_items = << >>

\* the entries of one kind, in the order of the store
EntriesOfKind(is_image) == SelectSeq(all_items, LAMBDA e : e.is_image = is_image)

\* what addItem compares for the entry: the text, or the hash of the image
SeenValue(item) ==
    IF item.is_image THEN imageHash(files[item.image_path]) ELSE item.text_content

\* no entry has the same text (or image hash) as the next older entry of its kind
DistinctWithinKind(is_image) ==
    LET entries == EntriesOfKind(is_image)
    IN  \A k \in 1..(Len(entries) - 1) :
            SeenValue(entries[k]) # SeenValue(entries[k + 1])

\* C26: a step that records an image leaves lastClip as it was and a step
\* that records a text leaves lastImageHash as it was; so, with the monitor
\* alone at work, a text is not recorded again after an image was recorded in
\* between, nor an image after a text.
C26_HashesPerKind ==
    /\ [][Len(all_items') > Len(all_items) =>
             IF all_items'[1].is_image
             THEN /\ lastClip' = lastClip
                  /\ lastImageHash' = imageHash(files'[all_items'[1].image_path])
             ELSE /\ lastImageHash' = lastImageHash
                  /\ lastClip' = all_items'[1].text_content]_vars
    /\ [](DistinctWithinKind(TRUE) /\ DistinctWithinKind(FALSE))

\* the text T was recorded, then an image, then T was copied again and handed
\* to the idle monitor, which left the store at two entries
C26_Witness ==
    /\ Len(all_items) = 2 /\ all_items[1].is_image /\ ~all_items[2].is_image
    /\ TextOnly /\ cb.text = all_items[2].text_content
    /\ run.presented >= 1 /\ run.inserted = 0 /\ nextOrder = 3

\* the image was recorded, then a text, then the image was copied again
C26_WitnessImage ==
    /\ Len(all_items) = 2 /\ ~all_items[1].is_image /\ all_items[2].is_image
    /\ cb.hasImage /\ imageHash(cb.img) = SeenValue(all_items[2])
    /\ run.presented >= 1 /\ run.inserted = 0 /\ nextOrder = 3

\* C27 as stated: no text entry of the store has an empty text or a text of
\* spaces only.
C27_NoBlankTextEntry ==
    \A k \in 1..Len(all_items) :
        ~all_items[k].is_image => ~Blank(all_items[k].text_content)

\* C27 as amended: no text entry of the store has an empty text, and the
\* monitor inserts no text entry whose text is empty or of spaces only; an
\* edit to the empty text leaves the store as it was.
C27_NoEmptyTextEntry ==
    /\ [](\A k \in 1..Len(all_items) :
             ~all_items[k].is_image => all_items[k].text_content # Empty)
    /\ [][Len(all_items') > Len(all_items) =>
             (all_items'[1].is_image \/ ~Blank(all_items'[1].text_content))]_vars
    /\ [][editCommit(Empty, TRUE) => all_items' = all_items]_vars

\* the user pressed OK on an empty text in the edit dialog of a text entry,
\* and the entry has kept its text
C27_Witness ==
    /\ lastOp = "editEmpty" /\ dialog = NoDialog
    /\ Len(all_items) = 1 /\ ~all_items[1].is_image
    /\ all_items[1].text_content = TextA

====
